---- MODULE Spec2Model ----
(***************************************************************************)
(* IDBlasterBot (src/bot.py): the two in-memory stores SILENT_CHATS and    *)
(* SENT_MESSAGES and the handlers that read and write them.                *)
(*                                                                         *)
(* One action per handler registered in main().  A handler's inputs (the   *)
(* chat, the user, the topic, the answer of get_chat_member, the outcome   *)
(* of a send or of a delete) are drawn with \E.  /clean awaits one         *)
(* delete_message per tracked id, so it is a process with a position: one  *)
(* step per await.                                                         *)
(***************************************************************************)
EXTENDS Integers, Sequences, FiniteSets, TLC

\* Number of updates the dispatcher hands to handlers in one behaviour.
MaxEvents == 2

\* Number of updates handled after a start from a list near the cap.
MaxWarmEvents == 1

\* Number of delete_message calls that fail in one /clean.
MaxFailures == 2

\* `if len(msgs) > 50: msgs.pop(0)`
TrackCap == 50

\* Python's None, for ids (user id, message_thread_id, message id).
None == 0

(***************************************************************************)
(* The world the bot lives in: three chats, two users, one forum topic.    *)
(* User 1 writes to the bot, in private and in the supergroup; user 2 is   *)
(* whom a /replyid can be about.                                           *)
(***************************************************************************)
Chats == {100, 300, 1}

ChatType(c) ==
    CASE c = 100 -> "supergroup"
      [] c = 300 -> "channel"
      [] OTHER   -> "private"

\* Chats whose messages reach a CommandHandler (channel posts do not).
CommandChats == {c \in Chats : ChatType(c) # "channel"}

\* Who can be update.effective_user in chat c: the peer of a private chat,
\* a member of a group, nobody for a channel post.
SendersOf(c) ==
    CASE ChatType(c) = "private" -> {c}
      [] ChatType(c) = "channel" -> {None}
      [] OTHER                   -> {1}

\* message_thread_id of an incoming message: topics exist in the supergroup.
ThreadsOf(c) == IF ChatType(c) = "supergroup" THEN {None, 5} ELSE {None}

\* What get_chat_member answers: member.status, or an exception.
MemberAnswers == {"creator", "administrator", "member", "error"}

\* What it can answer about a user of chat c: the peer of a private chat is a
\* plain member of it.
AnswersIn(c) == IF ChatType(c) = "private" THEN {"member"} ELSE MemberAnswers

\* What delete_message does: returns, raises BadRequest or Forbidden, or
\* raises another error (TimedOut, NetworkError, RetryAfter ...).
DeleteOutcomes == {"ok", "BadRequest", "Forbidden", "NetworkError"}

(***************************************************************************)
(* Text as characters: str.lower, str.startswith and str.split work on     *)
(* characters, so words are sequences of one-character strings.            *)
(***************************************************************************)
LowerChar(ch) ==
    CASE ch = "S" -> "s" [] ch = "I" -> "i" [] ch = "L" -> "l"
      [] ch = "E" -> "e" [] ch = "N" -> "n" [] ch = "T" -> "t"
      [] ch = "G" -> "g" [] ch = "R" -> "r" [] ch = "O" -> "o"
      [] ch = "U" -> "u" [] ch = "P" -> "p"
      [] OTHER    -> ch

\* str.lower()
lower(w) == [k \in 1..Len(w) |-> LowerChar(w[k])]

w_silent == <<"s", "i", "l", "e", "n", "t">>
w_group  == <<"g", "r", "o", "u", "p">>

\* context.args of a /mode command.
ModeArgs ==
    { <<>>,
      <<w_silent>>, <<w_group>>,
      << <<"S", "I", "L", "E", "N", "T">> >>, << <<"G", "r", "o", "u", "p">> >>,
      << <<"l", "o", "u", "d">> >> }

\* A decimal digit as a character, and f"{n}" for n >= 0.
Digit(d) ==
    CASE d = 0 -> "0" [] d = 1 -> "1" [] d = 2 -> "2" [] d = 3 -> "3"
      [] d = 4 -> "4" [] d = 5 -> "5" [] d = 6 -> "6" [] d = 7 -> "7"
      [] d = 8 -> "8" [] OTHER -> "9"

RECURSIVE Dec(_)
Dec(n) == IF n < 10 THEN <<Digit(n)>> ELSE Append(Dec(n \div 10), Digit(n % 10))

w_copy  == <<"c", "o", "p", "y">>
w_user  == <<"u", "s", "e", "r">>
w_chat  == <<"c", "h", "a", "t">>
w_topic == <<"t", "o", "p", "i", "c">>
w_bogus == <<"b", "o", "g", "u", "s">>
colon   == <<":">>

\* f"copy:{kind}:{value}"
CopyData(kind, value) == w_copy \o colon \o kind \o colon \o Dec(value)

\* callback_data of a callback query: what the bot's own buttons carry, and
\* strings a client could send instead.
Payloads ==
    { CopyData(w_user, 1), CopyData(w_chat, 100), CopyData(w_topic, 5),
      CopyData(w_bogus, 1),
      w_copy \o colon \o w_chat,
      w_copy \o colon \o w_chat \o colon,
      w_copy \o colon \o w_chat \o colon \o <<"1", ":", "2">>,
      w_chat \o colon \o w_copy \o colon \o <<"1">> }

\* str.startswith
startswith(s, prefix) ==
    /\ Len(s) >= Len(prefix)
    /\ SubSeq(s, 1, Len(prefix)) = prefix

\* Index of the first ":" of s, or 0.
FirstColon(s) ==
    IF \E k \in 1..Len(s) : s[k] = ":"
    THEN CHOOSE k \in 1..Len(s) : s[k] = ":" /\ \A j \in 1..(k - 1) : s[j] # ":"
    ELSE 0

\* s.split(":", maxsplit)
RECURSIVE split(_, _)
split(s, maxsplit) ==
    IF maxsplit = 0 \/ FirstColon(s) = 0
    THEN <<s>>
    ELSE <<SubSeq(s, 1, FirstColon(s) - 1)>>
             \o split(SubSeq(s, FirstColon(s) + 1, Len(s)), maxsplit - 1)

\* label_map[id_type] with no default: an unknown kind has no label.
label_map_get_NoDefault(id_type) ==
    CASE id_type = w_user  -> "User ID"
      [] id_type = w_chat  -> "Chat ID"
      [] id_type = w_topic -> "Topic ID"
      [] OTHER             -> "none"

\* label_map.get(id_type, "ID")
label_map_get(id_type) ==
    CASE id_type = w_user  -> "User ID"
      [] id_type = w_chat  -> "Chat ID"
      [] id_type = w_topic -> "Topic ID"
      [] OTHER             -> "ID"

(***************************************************************************)
(* A message text, by what it says: its kind, the number and the value it  *)
(* shows.                                                                  *)
(***************************************************************************)
Text(kind, num, val) == [kind |-> kind, num |-> num, val |-> val]

NoText == Text("none", 0, <<>>)

(***************************************************************************)
(* State.                                                                  *)
(***************************************************************************)
VARIABLES
    SILENT_CHATS,   \* set of chat ids in silent mode
    SENT_MESSAGES,  \* chat id -> list of the bot's tracked message ids
    nextId,         \* chat id -> id the next message of the chat gets
    botMsgs,        \* chat id -> ids of the messages the bot sent there
    keyboards,      \* chat id -> ids of the bot's messages with copy buttons
    recorded,       \* chat id -> ids appended since the list was last cleared
    cleanTask,      \* the /clean handler's locals and its place in the delete loop
    during,         \* ids other handlers tracked in the chat of a running /clean
    last,           \* what the last handler saw and did
    events,         \* updates dispatched so far
    concurrent      \* whether the Application runs handlers concurrently

vars == <<SILENT_CHATS, SENT_MESSAGES, nextId, botMsgs, keyboards, recorded,
          cleanTask, during, last, events, concurrent>>

\* The set of elements of a list.
Range(s) == {s[k] : k \in 1..Len(s)}

\* is_silent_chat that never finds a chat silent.
is_silent_chat_Never(c, silent) == FALSE

\* is_silent_chat without the test of chat.type.
is_silent_chat_AnyType(c, silent) == c \in silent

\* is_silent_chat(chat), reading the global SILENT_CHATS
is_silent_chat(c, silent) == ChatType(c) # "private" /\ c \in silent

\* is_user_admin taking "administrator" alone for an admin.
is_user_admin_NoCreator(c, u, m) ==
    IF u = None THEN [ok |-> FALSE, asked |-> FALSE]
    ELSE IF ChatType(c) = "private" THEN [ok |-> TRUE, asked |-> FALSE]
    ELSE IF m = "error" THEN [ok |-> FALSE, asked |-> TRUE]
    ELSE [ok |-> m = "administrator", asked |-> TRUE]

\* is_user_admin returning True when get_chat_member raises.
is_user_admin_FailOpen(c, u, m) ==
    IF u = None THEN [ok |-> FALSE, asked |-> FALSE]
    ELSE IF ChatType(c) = "private" THEN [ok |-> TRUE, asked |-> FALSE]
    ELSE IF m = "error" THEN [ok |-> TRUE, asked |-> TRUE]
    ELSE [ok |-> m \in {"creator", "administrator"}, asked |-> TRUE]

\* is_user_admin: the verdict, and whether get_chat_member was called.
\* m is what get_chat_member answers when it is called.
is_user_admin(c, u, m) ==
    IF u = None THEN [ok |-> FALSE, asked |-> FALSE]
    ELSE IF ChatType(c) = "private" THEN [ok |-> TRUE, asked |-> FALSE]
    ELSE IF m = "error" THEN [ok |-> FALSE, asked |-> TRUE]
    ELSE [ok |-> m \in {"creator", "administrator"}, asked |-> TRUE]

\* RecordSent taking the id of the message replied to for the id of the
\* message sent.
RecordSent_CommandId(log, c, mid) ==
    LET msgs == Append(log[c], mid - 1)
    IN  [log EXCEPT ![c] = IF Len(msgs) > TrackCap THEN Tail(msgs) ELSE msgs]

\* RecordSent without the eviction.
RecordSent_NoEvict(log, c, mid) == [log EXCEPT ![c] = Append(@, mid)]

\* RecordSent evicting the newest id, msgs.pop(), instead of the oldest.
RecordSent_PopNewest(log, c, mid) ==
    LET msgs == Append(log[c], mid)
    IN  [log EXCEPT ![c] = IF Len(msgs) > TrackCap
                           THEN SubSeq(msgs, 1, Len(msgs) - 1)
                           ELSE msgs]

\* msgs.append(sent.message_id); if len(msgs) > 50: msgs.pop(0)
RecordSent(log, c, mid) ==
    LET msgs == Append(log[c], mid)
    IN  [log EXCEPT ![c] = IF Len(msgs) > TrackCap THEN Tail(msgs) ELSE msgs]

\* build_copy_buttons: the callback_data of the buttons.
build_copy_buttons(user_id, chat_id, topic_id) ==
      (IF user_id # None THEN {CopyData(w_user, user_id)} ELSE {})
    \cup {CopyData(w_chat, chat_id)}
    \cup (IF topic_id # None THEN {CopyData(w_topic, topic_id)} ELSE {})

\* What a handler has seen and done; the fields a handler does not set.
Obs(h, c, u, t) ==
    [handler |-> h, chat |-> c, user |-> u, thread |-> t, msg |-> None,
     lookup |-> "not_asked", auth |-> "n/a", silent |-> "n/a", arg |-> <<>>,
     text |-> NoText, buttons |-> {}, route |-> "none", sent |-> None,
     raised |-> FALSE]

\* The observation after `await is_user_admin(update, context)`.
Checked(o, c, u, m) ==
    LET a == is_user_admin(c, u, m)
    IN  [o EXCEPT !.lookup = IF a.asked THEN m ELSE "not_asked",
                  !.auth = IF a.ok THEN "yes" ELSE "no"]

Idle == [pc |-> "idle", chat |-> None, obs |-> Obs("none", None, None, None),
         snapshot |-> <<>>, i |-> 1, deleted |-> 0, outcome |-> "none"]

(***************************************************************************)
(* The state after construction: both stores empty, no message anywhere.   *)
(***************************************************************************)
Fresh(silent) ==
    /\ SILENT_CHATS = silent
    /\ SENT_MESSAGES = [c \in Chats |-> <<>>]
    /\ nextId = [c \in Chats |-> 1]
    /\ botMsgs = [c \in Chats |-> {}]
    /\ keyboards = [c \in Chats |-> {}]
    /\ recorded = [c \in Chats |-> <<>>]
    /\ cleanTask = Idle
    /\ during = {}
    /\ last = Obs("none", None, None, None)
    /\ events = 0

Cold == Fresh({})

Init == Cold /\ concurrent = FALSE

\* The stores as they are once chat w has seen k /start commands (messages
\* 1, 3 .. 2k - 1) and the bot's k replies (messages 2, 4 .. 2k), with
\* `budget` updates left to explore.
Warm(w, k, budget) ==
    /\ SILENT_CHATS = {}
    /\ SENT_MESSAGES = [c \in Chats |-> IF c = w THEN [j \in 1..k |-> 2 * j] ELSE <<>>]
    /\ nextId = [c \in Chats |-> IF c = w THEN 2 * k + 1 ELSE 1]
    /\ botMsgs = [c \in Chats |-> IF c = w THEN {2 * j : j \in 1..k} ELSE {}]
    /\ keyboards = [c \in Chats |-> {}]
    /\ recorded = SENT_MESSAGES
    /\ cleanTask = Idle
    /\ during = {}
    /\ last = Obs("none", None, None, None)
    /\ events = MaxEvents - budget

\* Started with two tracked ids, or with a list one short of the cap or at
\* the cap.
InitWarm ==
    /\ \/ Cold
       \/ \E w \in CommandChats : Warm(w, 2, MaxEvents)
       \/ \E w \in CommandChats, k \in {TrackCap - 1, TrackCap} : Warm(w, k, MaxWarmEvents)
    /\ concurrent = FALSE

\* The Application built to handle updates concurrently: a handler runs
\* while another one awaits.
InitConc ==
    /\ Cold \/ \E w \in CommandChats : Warm(w, 2, MaxEvents)
    /\ concurrent = TRUE

\* is_silent_chat put to every content of SILENT_CHATS.
InitSilent ==
    /\ \E silent \in SUBSET Chats : Fresh(silent)
    /\ concurrent = FALSE

(***************************************************************************)
(* _reply_in_same_place, and the end of a handler.                         *)
(*                                                                         *)
(* route: into the topic of the message when it has one, else a reply.     *)
(* A send that returns is tracked; a send that raises ends the handler.    *)
(***************************************************************************)
reply_route(t) == IF t # None THEN "topic" ELSE "reply"

\* The id the chat's next message gets: a command or a forwarded message is
\* itself a message of the chat and takes an id before the bot's reply does.
FreeId(c, hasMsg) == IF hasMsg THEN nextId[c] + 1 ELSE nextId[c]

\* The stores a handler's reply starts from.
Stores == [log |-> SENT_MESSAGES, rec |-> recorded, kbs |-> keyboards]

\* A handler ends: it has replied `text` (NoText: it returns without a
\* reply) starting from the stores `st`.  o is what it has observed.
Sent(o, c, hasMsg, text, kb, route, sendOk, st) ==
    LET mid == FreeId(c, hasMsg)
        ok  == text # NoText /\ sendOk
    IN  /\ SENT_MESSAGES' = IF ok THEN RecordSent(st.log, c, mid) ELSE st.log
        /\ recorded' = IF ok THEN [st.rec EXCEPT ![c] = Append(@, mid)] ELSE st.rec
        /\ nextId' = [nextId EXCEPT ![c] = IF ok THEN mid + 1 ELSE mid]
        /\ botMsgs' = IF ok THEN [botMsgs EXCEPT ![c] = @ \cup {mid}] ELSE botMsgs
        /\ keyboards' = IF ok /\ kb # {}
                        THEN [st.kbs EXCEPT ![c] = @ \cup {mid}]
                        ELSE st.kbs
        /\ last' = [o EXCEPT !.msg = IF hasMsg THEN nextId[c] ELSE o.msg,
                             !.text = text,
                             !.buttons = IF text # NoText THEN kb ELSE {},
                             !.route = IF text # NoText THEN route ELSE "none",
                             !.sent = IF ok THEN mid ELSE None,
                             !.raised = o.raised \/ (text # NoText /\ ~sendOk)]

\* The send returns the message sent, or raises; nothing is sent for NoText.
Handled(o, c, hasMsg, text, kb, route, st) ==
    \E sendOk \in (IF text = NoText THEN {TRUE} ELSE BOOLEAN) :
        Sent(o, c, hasMsg, text, kb, route, sendOk, st)

\* A handler other than /clean ends; ids it tracks in the chat of a running
\* /clean are noted, and the locals of a /clean that has ended are gone.
Ended(o, c, hasMsg, text, kb, route) ==
    /\ Handled(o, c, hasMsg, text, kb, route, Stores)
    /\ during' = IF cleanTask.pc = "deleting" /\ cleanTask.chat = c /\ last'.sent # None
                 THEN during \cup {last'.sent}
                 ELSE during
    /\ events' = events + 1
    /\ cleanTask' = IF cleanTask.pc = "deleting" THEN cleanTask ELSE Idle
    /\ UNCHANGED concurrent

\* A command handler ends with a reply through _reply_in_same_place.
Replied(o, c, t, text, kb) ==
    Ended(o, c, TRUE, text, kb, reply_route(t))

\* A handler returns without a reply.
Returned(o, c) == Replied(o, c, None, NoText, {})

\* The dispatcher hands an update to a handler: one at a time unless the
\* Application was built with concurrent updates.
Dispatch == events < MaxEvents /\ (concurrent \/ cleanTask.pc # "deleting")

\* The admin check ignored: nobody is refused.
refused_Nobody(o) == FALSE

\* `if not await is_user_admin(update, context):` on the observation made
\* by Checked.
refused(o) == o.auth = "no"

\* The denial left out: the handler returns without a word.
Denied_Quiet(o, c, t, denial) == Returned(o, c)

\* `if not await is_user_admin(...): await _reply_in_same_place(update,
\* context, "... Only chat admins ..."); return`
Denied(o, c, t, denial) == Replied(o, c, t, Text(denial, 0, <<>>), {})

(***************************************************************************)
(* Handlers.                                                               *)
(***************************************************************************)
start_or_help(c, u, t) ==
    /\ Dispatch
    /\ Replied(Obs("start_or_help", c, u, t), c, t, Text("help", 0, <<>>), {})
    /\ UNCHANGED SILENT_CHATS

about_command(c, u, t) ==
    /\ Dispatch
    /\ Replied(Obs("about_command", c, u, t), c, t, Text("about", 0, <<>>), {})
    /\ UNCHANGED SILENT_CHATS

\* The head shared by /id, /chat, /topic and /replyid: the admin check with
\* its denial, then the silent check.  `answer` is the reply of the handler
\* that got through both, `kb` its buttons.
id_handler(h, denial, c, u, t, m, answer, kb) ==
    LET o == Checked(Obs(h, c, u, t), c, u, m)
    IN  /\ Dispatch
        /\ IF refused(o)
           THEN Denied(o, c, t, denial)
           ELSE IF is_silent_chat(c, SILENT_CHATS)
           THEN Returned([o EXCEPT !.silent = "yes"], c)
           ELSE Replied([o EXCEPT !.silent = "no"], c, t, answer, kb)
        /\ UNCHANGED SILENT_CHATS

id_command(c, u, t, m) ==
    id_handler("id_command", "denied /id", c, u, t, m,
               Text("id_info", c, <<>>), build_copy_buttons(u, c, t))

chat_command(c, u, t, m) ==
    id_handler("chat_command", "denied /chat", c, u, t, m,
               Text("chat_id", c, <<>>), {CopyData(w_chat, c)})

topic_command(c, u, t, m) ==
    id_handler("topic_command", "denied /topic", c, u, t, m,
               IF t = None THEN Text("no_topic", 0, <<>>) ELSE Text("topic_id", t, <<>>),
               IF t = None THEN {} ELSE {CopyData(w_topic, t)})

\* target: msg.reply_to_message.from_user.id, None when the command is not
\* a reply to a user's message.
replyid_command(c, u, t, m, target) ==
    id_handler("replyid_command", "denied /replyid", c, u, t, m,
               IF target = None THEN Text("replyid_usage", 0, <<>>)
                                ELSE Text("replied_user", target, <<>>),
               IF target = None THEN {} ELSE {CopyData(w_user, target)})

\* CallbackQueryHandler(copy_id_callback, pattern=r"^copy:"): a press of a
\* button of one of the bot's messages in chat c.  answerOk: query.answer()
\* returns.  The reply goes through query.message.reply_text.
copy_id_callback(c, u, data, answerOk) ==
    LET o     == [Obs("copy_id_callback", c, u, None) EXCEPT !.arg = data]
        parts == split(data, 2)
    IN  /\ Dispatch
        /\ keyboards[c] # {}
        /\ IF ~startswith(data, w_copy \o colon)
           THEN Ended([o EXCEPT !.handler = "none"], c, FALSE, NoText, {}, "none")
           ELSE IF ~answerOk
           THEN Ended([o EXCEPT !.raised = TRUE], c, FALSE, NoText, {}, "none")
           ELSE IF Len(parts) # 3
           THEN Ended(o, c, FALSE, NoText, {}, "none")
           ELSE Ended(o, c, FALSE, Text(label_map_get(parts[2]), 0, parts[3]),
                      {}, "reply")
        /\ UNCHANGED SILENT_CHATS

\* MessageHandler(filters.FORWARDED, forward_info_handler).  origin: whether
\* the forward carries any original id.
forward_info_handler(c, u, t, m, origin) ==
    LET o0 == Obs("forward_info_handler", c, u, t)
        o  == IF ChatType(c) # "private" THEN Checked(o0, c, u, m) ELSE o0
        text == IF origin THEN Text("forward_info", 0, <<>>)
                          ELSE Text("forward_no_info", 0, <<>>)
    IN  /\ Dispatch
        /\ IF ChatType(c) # "private" /\ refused(o)
           THEN Returned(o, c)
           ELSE IF ChatType(c) # "private" /\ is_silent_chat(c, SILENT_CHATS)
           THEN Returned([o EXCEPT !.silent = "yes"], c)
           ELSE Replied(IF ChatType(c) # "private" THEN [o EXCEPT !.silent = "no"] ELSE o,
                        c, t, text, {})
        /\ UNCHANGED SILENT_CHATS

\* /mode silent silencing every chat.
SetSilent_Everywhere(silent, c) == silent \cup Chats

\* SILENT_CHATS.add(chat_id)
SetSilent(silent, c) == silent \cup {c}

\* SILENT_CHATS.discard left out.
SetGroup_Not(silent, c) == silent

\* SILENT_CHATS.discard(chat_id)
SetGroup(silent, c) == silent \ {c}

\* The chain taking every argument but "group" for "silent".
mode_of_ElseSilent(arg) == IF arg = w_group THEN "group" ELSE "silent"

\* if arg == "silent" ... elif arg == "group" ... else
mode_of(arg) ==
    IF arg = w_silent THEN "silent"
    ELSE IF arg = w_group THEN "group"
    ELSE "unknown"

\* /mode [silent|group]; args is context.args.
mode_command(c, u, t, m, args) ==
    LET o0  == [Obs("mode_command", c, u, t) EXCEPT !.arg = args]
        o   == Checked(o0, c, u, m)
        arg == lower(args[1])
    IN  /\ Dispatch
        /\ IF ChatType(c) = "private"
           THEN /\ Replied(o0, c, t, Text("mode_groups_only", 0, <<>>), {})
                /\ UNCHANGED SILENT_CHATS
           ELSE IF refused(o)
           THEN /\ Denied(o, c, t, "denied /mode")
                /\ UNCHANGED SILENT_CHATS
           ELSE IF args = <<>>
           THEN /\ Replied(o, c, t,
                           Text("current_mode", 0,
                                IF c \in SILENT_CHATS THEN w_silent ELSE w_group),
                           {})
                /\ UNCHANGED SILENT_CHATS
           ELSE IF mode_of(arg) = "silent"
           THEN /\ SILENT_CHATS' = SetSilent(SILENT_CHATS, c)
                /\ Replied(o, c, t, Text("silent_enabled", 0, <<>>), {})
           ELSE IF mode_of(arg) = "group"
           THEN /\ SILENT_CHATS' = SetGroup(SILENT_CHATS, c)
                /\ Replied(o, c, t, Text("group_enabled", 0, <<>>), {})
           ELSE /\ Replied(o, c, t, Text("unknown_mode", 0, <<>>), {})
                /\ UNCHANGED SILENT_CHATS

(***************************************************************************)
(* /clean.  clean_command up to its first await of delete_message, then    *)
(* one step per delete_message; the step of the last delete goes on to     *)
(* clear the list and to send the report, with no await in between.        *)
(***************************************************************************)
clean_command(c, u, t, m) ==
    LET o == Checked(Obs("clean_command", c, u, t), c, u, m)
    IN  /\ Dispatch
        /\ cleanTask.pc # "deleting"
        /\ IF refused(o)
           THEN Denied(o, c, t, "denied /clean")
           ELSE IF SENT_MESSAGES[c] = <<>>
           THEN Replied(o, c, t, Text("nothing_to_clean", 0, <<>>), {})
           ELSE /\ cleanTask' = [pc |-> "deleting", chat |-> c,
                                 obs |-> [o EXCEPT !.msg = nextId[c]],
                                 snapshot |-> SENT_MESSAGES[c], i |-> 1, deleted |-> 0,
                                 outcome |-> "none"]
                /\ last' = [o EXCEPT !.msg = nextId[c]]
                /\ nextId' = [nextId EXCEPT ![c] = @ + 1]
                /\ during' = {}
                /\ events' = events + 1
                /\ UNCHANGED <<SENT_MESSAGES, botMsgs, keyboards, recorded, concurrent>>
        /\ UNCHANGED SILENT_CHATS

\* A clear that leaves the newest id in the list.
Cleared_KeepNewest(log, c) ==
    [log EXCEPT ![c] = IF @ = <<>> THEN @ ELSE <<@[Len(@)]>>]

\* A clear that leaves the oldest id in the list.
Cleared_KeepOldest(log, c) ==
    [log EXCEPT ![c] = IF @ = <<>> THEN @ ELSE <<Head(@)>>]

\* /clean without its clear.
Cleared_Not(log, c) == log

\* A bare `except`: every error of delete_message is caught.
caught_Any(outcome) == TRUE

\* `except` catching BadRequest alone.
caught_BadRequestOnly(outcome) == outcome = "BadRequest"

\* except (BadRequest, Forbidden)
caught(outcome) == outcome \in {"BadRequest", "Forbidden"}

\* SENT_MESSAGES[chat_id].clear()
Cleared(log, c) == [log EXCEPT ![c] = <<>>]

\* One turn of `for mid in list(message_ids)`, and after the last one the
\* clear and the report.
clean_delete(outcome) ==
    LET c   == cleanTask.chat
        mid == cleanTask.snapshot[cleanTask.i]
        n   == IF outcome = "ok" THEN cleanTask.deleted + 1 ELSE cleanTask.deleted
        kbs == IF outcome = "ok" THEN [keyboards EXCEPT ![c] = @ \ {mid}] ELSE keyboards
        step == [cleanTask EXCEPT !.i = @ + 1, !.deleted = n, !.outcome = outcome]
    IN  /\ cleanTask.pc = "deleting"
        /\ outcome # "ok" => cleanTask.i - 1 - cleanTask.deleted < MaxFailures
        /\ IF outcome # "ok" /\ ~caught(outcome)
           THEN /\ cleanTask' = [step EXCEPT !.pc = "aborted"]
                /\ last' = [cleanTask.obs EXCEPT !.raised = TRUE]
                /\ UNCHANGED <<SENT_MESSAGES, nextId, botMsgs, keyboards, recorded>>
           ELSE IF cleanTask.i < Len(cleanTask.snapshot)
           THEN /\ cleanTask' = step
                /\ keyboards' = kbs
                /\ UNCHANGED <<SENT_MESSAGES, nextId, botMsgs, recorded, last>>
           ELSE /\ cleanTask' = [step EXCEPT !.pc = "done"]
                /\ Handled(cleanTask.obs, c, FALSE, Text("cleaned", n, <<>>), {},
                           reply_route(cleanTask.obs.thread),
                           [log |-> Cleared(SENT_MESSAGES, c),
                            rec |-> Cleared(recorded, c), kbs |-> kbs])
        /\ UNCHANGED <<SILENT_CHATS, during, events, concurrent>>

(***************************************************************************)
(* The program: main() registers the handlers; the dispatcher runs them.   *)
(***************************************************************************)
Next ==
    \/ \E c \in CommandChats : \E u \in SendersOf(c), t \in ThreadsOf(c) :
           start_or_help(c, u, t)
    \/ \E c \in CommandChats : \E u \in SendersOf(c), t \in ThreadsOf(c) :
           about_command(c, u, t)
    \/ \E c \in CommandChats : \E u \in SendersOf(c), t \in ThreadsOf(c),
                                  m \in AnswersIn(c) :
           \/ id_command(c, u, t, m)
           \/ chat_command(c, u, t, m)
           \/ topic_command(c, u, t, m)
           \/ \E target \in {None, 2} : replyid_command(c, u, t, m, target)
           \/ \E args \in ModeArgs : mode_command(c, u, t, m, args)
           \/ clean_command(c, u, t, m)
    \/ \E c \in CommandChats : \E u \in SendersOf(c), data \in Payloads,
                                  answerOk \in BOOLEAN :
           copy_id_callback(c, u, data, answerOk)
    \/ \E c \in Chats : \E u \in SendersOf(c), t \in ThreadsOf(c), m \in AnswersIn(c),
                           origin \in BOOLEAN :
           forward_info_handler(c, u, t, m, origin)
    \/ \E outcome \in DeleteOutcomes : clean_delete(outcome)

\* The program as main() builds it: updates are handled one at a time.
Spec == Init /\ [][Next]_vars

\* The same program, started from stores that are already filled.
SpecWarm == InitWarm /\ [][Next]_vars

\* The same handlers under concurrent dispatch.
SpecConc == InitConc /\ [][Next]_vars

\* The same handlers over any silent set.
SpecSilent == InitSilent /\ [][Next]_vars

(***************************************************************************)
(* Properties.                                                             *)
(***************************************************************************)

\* C1: in every reachable state the tracked list of every chat holds at most
\* 50 message ids.
C1_AtMostFifty == \A c \in Chats : Len(SENT_MESSAGES[c]) <= TrackCap

\* A chat whose list is full after more than 50 ids were appended to it.
C1_Witness ==
    \E c \in Chats : Len(SENT_MESSAGES[c]) = TrackCap /\ Len(recorded[c]) > TrackCap

C3_FailureNeverAborts ==
    cleanTask.pc \in {"done", "aborted"} =>
        /\ cleanTask.i = Len(cleanTask.snapshot) + 1
        /\ last.text = Text("cleaned", cleanTask.deleted, <<>>)

\* C3, amended: a delete that returns or fails with BadRequest or Forbidden
\* is followed by the delete of the next id of the snapshot, or after the
\* last id by the report; the count goes up by one exactly when the delete
\* succeeded, and the report carries that count.  /clean ends "done" only
\* when a delete was attempted for every id.
C3_CaughtFailureGoesOn ==
    /\ [](cleanTask.pc = "done" => cleanTask.i = Len(cleanTask.snapshot) + 1)
    /\ [][ cleanTask.pc = "deleting" /\ cleanTask' # cleanTask =>
             LET out == cleanTask'.outcome
                 len == Len(cleanTask.snapshot)
             IN  /\ cleanTask.i <= len
                 /\ cleanTask'.i = cleanTask.i + 1
                 /\ cleanTask'.snapshot = cleanTask.snapshot
                 /\ cleanTask'.deleted =
                        cleanTask.deleted + (IF out = "ok" THEN 1 ELSE 0)
                 /\ out \in {"ok", "BadRequest", "Forbidden"} =>
                        IF cleanTask.i < len
                        THEN cleanTask'.pc = "deleting"
                        ELSE /\ cleanTask'.pc = "done"
                             /\ last'.chat = cleanTask.chat
                             /\ last'.text = Text("cleaned", cleanTask'.deleted, <<>>)
          ]_vars

\* A /clean that sent its report after a delete failed and a later one
\* succeeded.
C3_Witness ==
    /\ cleanTask.pc = "done"
    /\ cleanTask.outcome = "ok"
    /\ cleanTask.deleted < Len(cleanTask.snapshot)
    /\ last.sent # None

\* C4 as claimed: after an authorized /clean of k >= 1 ids whose deletes all
\* succeeded, the report says k and the chat's list is empty.
C4_ListEmptyAfterClean ==
    (cleanTask.pc = "done" /\ cleanTask.deleted = Len(cleanTask.snapshot)) =>
        /\ last.text = Text("cleaned", Len(cleanTask.snapshot), <<>>)
        /\ SENT_MESSAGES[cleanTask.chat] = <<>>

\* C4, amended: after an authorized /clean of k >= 1 ids whose deletes all
\* succeeded, the report says k and the chat's list holds none of the k ids:
\* it holds the id of the report, and is empty only when the report was not
\* sent.
C4_OnlyReportAfterClean ==
    (cleanTask.pc = "done" /\ cleanTask.deleted = Len(cleanTask.snapshot)) =>
        /\ Len(cleanTask.snapshot) >= 1
        /\ last.handler = "clean_command" /\ last.auth = "yes"
        /\ last.text = Text("cleaned", Len(cleanTask.snapshot), <<>>)
        /\ last.sent \notin Range(cleanTask.snapshot)
        /\ SENT_MESSAGES[cleanTask.chat] =
               IF last.sent # None THEN <<last.sent>> ELSE <<>>

\* A /clean of a full list, every delete succeeded, the report sent.
C4_Witness ==
    /\ cleanTask.pc = "done"
    /\ Len(cleanTask.snapshot) = TrackCap
    /\ cleanTask.deleted = TrackCap
    /\ last.sent # None

\* C5: after more than 50 ids were appended to a chat's list with no clean in
\* between, the list holds exactly the last 50 of them, in the order of the
\* calls.
C5_KeepsLastFifty ==
    \A c \in Chats :
        Len(recorded[c]) > TrackCap =>
            /\ Len(SENT_MESSAGES[c]) = TrackCap
            /\ SENT_MESSAGES[c] =
                   SubSeq(recorded[c], Len(recorded[c]) - TrackCap + 1, Len(recorded[c]))

\* More than 50 ids appended to one chat's list since it was last cleared.
C5_Witness == \E c \in Chats : Len(recorded[c]) > TrackCap /\ last.sent # None

\* Arguments of /mode that read "silent", and "group", whatever their case.
SilentWords == {w_silent, <<"S", "I", "L", "E", "N", "T">>}
GroupWords == {w_group, <<"G", "r", "o", "u", "p">>}

\* An authorized /mode with an argument in a group chat has just been handled.
ModeRequest(o) ==
    /\ o.handler = "mode_command"
    /\ o.auth = "yes"
    /\ o.arg # <<>>

\* C6: every chat starts in mode group; an authorized /mode silent puts the
\* chat in the silent set and an authorized /mode group takes it out, leaving
\* the other chats as they are; nothing else changes the set, so a chat's
\* mode is the one its last request named; /mode with no argument reports it.
C6_ModeFollowsLastRequest ==
    /\ SILENT_CHATS = {}
    /\ [][ IF last' # last /\ ModeRequest(last')
           THEN /\ SILENT_CHATS' \ {last'.chat} = SILENT_CHATS \ {last'.chat}
                /\ last'.arg[1] \in SilentWords => last'.chat \in SILENT_CHATS'
                /\ last'.arg[1] \in GroupWords => last'.chat \notin SILENT_CHATS'
           ELSE /\ SILENT_CHATS' = SILENT_CHATS
                /\ ( /\ last' # last
                     /\ last'.handler = "mode_command"
                     /\ last'.auth = "yes" ) =>
                       last'.text = Text("current_mode", 0,
                                         IF last'.chat \in SILENT_CHATS
                                         THEN w_silent ELSE w_group)
         ]_vars

\* /mode with no argument reports "silent": a /mode silent came before it.
C6_Witness ==
    /\ last.handler = "mode_command"
    /\ last.text = Text("current_mode", 0, w_silent)
    /\ last.sent # None

\* C7: an authorized /mode whose argument is neither "silent" nor "group",
\* whatever the case, leaves the silent set as it is and answers with an
\* error message: the unknown-mode message in a group chat, the
\* groups-only message in a private chat.
C7_UnknownModeChangesNothing ==
    [][ ( /\ last' # last
          /\ last'.handler = "mode_command"
          /\ last'.auth = "yes" \/ ChatType(last'.chat) = "private"
          /\ last'.arg # <<>>
          /\ last'.arg[1] \notin SilentWords \cup GroupWords ) =>
            /\ SILENT_CHATS' = SILENT_CHATS
            /\ last'.text = IF ChatType(last'.chat) = "private"
                            THEN Text("mode_groups_only", 0, <<>>)
                            ELSE Text("unknown_mode", 0, <<>>)
            /\ last'.sent # None \/ last'.raised
      ]_vars

\* The error message sent in a chat that is in silent mode.
C7_Witness ==
    /\ last.text = Text("unknown_mode", 0, <<>>)
    /\ last.sent # None
    /\ last.chat \in SILENT_CHATS

\* C8: is_silent_chat is false for a private chat whatever the silent set
\* holds, and for any other chat true exactly when the chat's id is in the
\* silent set.
C8_SilentOnlyOutsidePrivate ==
    last.silent # "n/a" =>
        /\ ChatType(last.chat) = "private" => last.silent = "no"
        /\ ChatType(last.chat) # "private" =>
               (last.silent = "yes" <=> last.chat \in SILENT_CHATS)

\* A private chat whose id is in the silent set, found not silent.
C8_Witness ==
    /\ last.silent = "no"
    /\ ChatType(last.chat) = "private"
    /\ last.chat \in SILENT_CHATS

\* C9: is_user_admin is true in a private chat; in any other chat it is true
\* exactly when get_chat_member reports creator or administrator.
C9_AdminOrPrivate ==
    last.auth # "n/a" =>
        /\ ChatType(last.chat) = "private" => last.auth = "yes"
        /\ ChatType(last.chat) # "private" =>
               (last.auth = "yes" <=> last.lookup \in {"creator", "administrator"})

\* The owner of the supergroup, authorized.
C9_Witness ==
    /\ last.auth = "yes"
    /\ ChatType(last.chat) = "supergroup"
    /\ last.lookup = "creator"

\* The texts that tell a user they are not an admin.
Denials ==
    {Text(k, 0, <<>>) : k \in {"denied /id", "denied /chat", "denied /topic",
                               "denied /replyid", "denied /mode", "denied /clean"}}

\* C10: when get_chat_member raises, is_user_admin is false and the handler
\* goes on as for a denial: it answers with its denial (a forwarded message
\* gets no answer), the silent set is unchanged, no /clean starts deleting
\* and no tracked id is dropped.
C10_LookupFailureDenies ==
    [][ (last' # last /\ last'.lookup = "error") =>
            /\ last'.auth = "no"
            /\ IF last'.handler = "forward_info_handler"
               THEN last'.text = NoText /\ ~last'.raised
               ELSE last'.text \in Denials /\ (last'.sent # None \/ last'.raised)
            /\ SILENT_CHATS' = SILENT_CHATS
            /\ cleanTask'.pc # "deleting"
            /\ \A c \in Chats : Range(SENT_MESSAGES[c]) \subseteq Range(SENT_MESSAGES'[c])
      ]_vars

\* A /clean refused on a failed lookup in a chat with ids to delete.
C10_Witness ==
    /\ last.lookup = "error"
    /\ last.handler = "clean_command"
    /\ last.sent # None
    /\ Len(SENT_MESSAGES[last.chat]) >= 2

\* The handlers silent mode is about: the ID-inspection commands and the
\* handler of forwarded messages.
InspectHandlers ==
    {"id_command", "chat_command", "topic_command", "replyid_command",
     "forward_info_handler"}

\* An authorized /mode group has just been handled.
GroupRequest(o) == ModeRequest(o) /\ o.arg[1] \in GroupWords

\* C11: an authorized /mode silent in a group chat puts the chat in silent
\* mode; the chat stays silent until an authorized /mode group in it; and
\* while it is silent a /id, /chat, /topic, /replyid or forwarded message
\* from an authorized user of the chat sends no message and leaves every
\* tracked list as it is.
C11_SilentUntilGroup ==
    [][ events' # events =>
          /\ (ModeRequest(last') /\ last'.arg[1] \in SilentWords) =>
                 is_silent_chat(last'.chat, SILENT_CHATS')
          /\ SILENT_CHATS \ SILENT_CHATS' \subseteq
                 (IF GroupRequest(last') THEN {last'.chat} ELSE {})
          /\ ( /\ last'.handler \in InspectHandlers
               /\ last'.auth = "yes"
               /\ ChatType(last'.chat) # "private"
               /\ last'.chat \in SILENT_CHATS ) =>
                 /\ last'.text = NoText
                 /\ last'.sent = None
                 /\ SENT_MESSAGES' = SENT_MESSAGES
                 /\ botMsgs' = botMsgs
      ]_vars

\* An administrator's /replyid in a topic of the silent supergroup, unanswered.
C11_Witness ==
    /\ last.handler = "replyid_command"
    /\ last.lookup = "administrator"
    /\ last.thread # None
    /\ last.silent = "yes"
    /\ last.chat \in SILENT_CHATS
    /\ last.sent = None
    /\ SENT_MESSAGES[last.chat] # <<>>

\* C12: while a group chat is in silent mode no /id, /chat, /topic, /replyid
\* and no forwarded message gets a reply in it, whoever sent it.
C12_SilentChatGetsNoReply ==
    ( /\ last.handler \in InspectHandlers
      /\ is_silent_chat(last.chat, SILENT_CHATS) ) =>
        /\ last.text = NoText
        /\ last.sent = None

\* The denial text of each handler that has one.
DenialOf(h) ==
    CASE h = "id_command"      -> Text("denied /id", 0, <<>>)
      [] h = "chat_command"    -> Text("denied /chat", 0, <<>>)
      [] h = "topic_command"   -> Text("denied /topic", 0, <<>>)
      [] h = "replyid_command" -> Text("denied /replyid", 0, <<>>)
      [] h = "mode_command"    -> Text("denied /mode", 0, <<>>)
      [] h = "clean_command"   -> Text("denied /clean", 0, <<>>)
      [] OTHER                 -> NoText

\* C13 as claimed: whenever a handler stops because is_user_admin is false,
\* the forwarded-message handler included, a denial message goes out.
C13_EveryDenialAnswered == last.auth = "no" => last.text \in Denials

\* C13, amended: a /id, /chat, /topic, /replyid, /mode or /clean that stops
\* because is_user_admin is false answers with its denial message, which is
\* sent unless the send itself fails; a forwarded message in a group that
\* stops for the same reason gets no message at all.
C13_CommandDenialAnswered ==
    last.auth = "no" =>
        IF last.handler = "forward_info_handler"
        THEN last.text = NoText /\ last.sent = None
        ELSE /\ last.text = DenialOf(last.handler)
             /\ last.text \in Denials
             /\ last.sent # None \/ last.raised

\* A plain member's /clean, refused with the denial message.
C13_Witness ==
    /\ last.handler = "clean_command"
    /\ last.lookup = "member"
    /\ last.auth = "no"
    /\ last.sent # None

\* C14: when the report of /clean is recorded right after the clear, the
\* chat's list holds the id of the report, which is none of the drained ids,
\* and holds none of the drained ids.
C14_ReportAfterDrain ==
    cleanTask.pc = "done" =>
        /\ last.sent # None =>
               /\ last.sent \in Range(SENT_MESSAGES[cleanTask.chat])
               /\ last.sent \notin Range(cleanTask.snapshot)
        /\ Range(cleanTask.snapshot) \cap Range(SENT_MESSAGES[cleanTask.chat]) = {}

\* The report of a /clean of 49 ids, tracked.
C14_Witness ==
    /\ cleanTask.pc = "done"
    /\ Len(cleanTask.snapshot) = TrackCap - 1
    /\ last.sent \in Range(SENT_MESSAGES[cleanTask.chat])

\* C15: every id in a chat's tracked list is the id of a message the bot
\* sent into that chat: it is one of the chat's ids given out so far, it is
\* not the id of the message the last handler was called for, and it is the
\* id of one of the bot's messages of that chat.
C15_OnlyOwnMessages ==
    \A c \in Chats :
        /\ Range(SENT_MESSAGES[c]) \subseteq botMsgs[c]
        /\ \A mid \in Range(SENT_MESSAGES[c]) : mid >= 1 /\ mid < nextId[c]
        /\ (last.chat = c /\ last.msg # None) => last.msg \notin Range(SENT_MESSAGES[c])

\* Replies tracked in two chats, the last one an answer to a user's message.
C15_Witness ==
    /\ last.msg # None
    /\ last.sent # None
    /\ \E d \in Chats \ {last.chat} :
           /\ SENT_MESSAGES[d] # <<>>
           /\ botMsgs[d] # botMsgs[last.chat]

\* The reply each payload of Payloads is to get: '<label>: <value>', or none.
CopyReply(data) ==
    CASE data = CopyData(w_user, 1)    -> Text("User ID", 0, <<"1">>)
      [] data = CopyData(w_chat, 100)  -> Text("Chat ID", 0, <<"1", "0", "0">>)
      [] data = CopyData(w_topic, 5)   -> Text("Topic ID", 0, <<"5">>)
      [] data = CopyData(w_bogus, 1)   -> Text("ID", 0, <<"1">>)
      [] data = w_copy \o colon \o w_chat \o colon -> Text("Chat ID", 0, <<>>)
      [] data = w_copy \o colon \o w_chat \o colon \o <<"1", ":", "2">>
                                       -> Text("Chat ID", 0, <<"1", ":", "2">>)
      [] OTHER                         -> NoText

\* C16: a press carrying copy:<kind>:<value> is answered with
\* '<label>: <value>', the label being User ID, Chat ID or Topic ID for the
\* kinds user, chat and topic and ID for any other kind; the value is all
\* that follows the second colon.  A payload that does not start with copy:
\* or has no second colon gets no reply and nothing is recorded for it.  The
\* reply is missing only when query.answer() or the send itself failed.
C16_CopyReply ==
    [][ ( /\ events' # events
          /\ last'.handler \in {"copy_id_callback", "none"}
          /\ last'.arg \in Payloads ) =>
          IF CopyReply(last'.arg) = NoText
          THEN /\ last'.text = NoText
               /\ last'.sent = None
               /\ SENT_MESSAGES' = SENT_MESSAGES
               /\ botMsgs' = botMsgs
          ELSE /\ last'.handler = "copy_id_callback"
               /\ \/ last'.text = CopyReply(last'.arg) /\ last'.route = "reply"
                  \/ last'.text = NoText /\ last'.raised
               /\ last'.sent = None =>
                      last'.raised /\ SENT_MESSAGES' = SENT_MESSAGES
               /\ last'.sent # None =>
                      SENT_MESSAGES'[last'.chat] =
                          Append(SENT_MESSAGES[last'.chat], last'.sent)
      ]_vars

\* copy:bogus:1 answered with the generic label.
C16_Witness ==
    /\ last.handler = "copy_id_callback"
    /\ last.arg = CopyData(w_bogus, 1)
    /\ last.text = Text("ID", 0, <<"1">>)
    /\ last.sent # None

\* A /mode or /clean that is_user_admin refused has just been handled.
RefusedRequest(o) ==
    /\ o.handler \in {"mode_command", "clean_command"}
    /\ o.auth = "no"

\* The ids a step takes out of the tracked list of chat c.
Dropped(c) == Range(SENT_MESSAGES[c]) \ Range(SENT_MESSAGES'[c])

\* The id an append can push out of the list of chat c: its oldest.
Oldest(c) == IF SENT_MESSAGES[c] = <<>> THEN {} ELSE {Head(SENT_MESSAGES[c])}

\* The silent set changes only in an authorized /mode, a delete is attempted
\* only in an authorized /clean, and more than the oldest id leaves a list
\* only at the end of an authorized /clean.
OnlyByAuthorized ==
    /\ SILENT_CHATS' # SILENT_CHATS =>
           last'.handler = "mode_command" /\ last'.auth = "yes"
    /\ (cleanTask'.pc = "deleting" \/ cleanTask'.i = cleanTask.i + 1) =>
           /\ cleanTask'.obs.handler = "clean_command"
           /\ cleanTask'.obs.auth = "yes"
    /\ (\E c \in Chats : Dropped(c) \ Oldest(c) # {}) =>
           /\ cleanTask.pc = "deleting"
           /\ cleanTask.obs.auth = "yes"

\* C17 as claimed: the silent set is changed, deletes are attempted and ids
\* leave a tracked list only in a /mode or /clean of an authorized user; a
\* refused /mode or /clean changes no mode, attempts no delete and takes no
\* id out of any tracked list.
C17_RefusedRemovesNothing ==
    [][ /\ OnlyByAuthorized
        /\ (events' # events /\ RefusedRequest(last')) =>
               /\ SILENT_CHATS' = SILENT_CHATS
               /\ cleanTask'.pc # "deleting"
               /\ \A c \in Chats : Dropped(c) = {}
      ]_vars

\* C17, amended: the silent set is changed, deletes are attempted and a
\* tracked list is cleared only in a /mode or /clean of an authorized user;
\* a refused /mode or /clean changes no mode, attempts no delete and touches
\* no list but its own chat's, to which it appends the id of the denial
\* message; the one id that can leave the list is its oldest, evicted when
\* the list already held 50.
C17_RefusedOnlyAppends ==
    [][ /\ OnlyByAuthorized
        /\ (events' # events /\ RefusedRequest(last')) =>
               /\ SILENT_CHATS' = SILENT_CHATS
               /\ cleanTask'.pc # "deleting"
               /\ \A c \in Chats \ {last'.chat} : SENT_MESSAGES'[c] = SENT_MESSAGES[c]
               /\ LET old == SENT_MESSAGES[last'.chat]
                      new == SENT_MESSAGES'[last'.chat]
                  IN  IF last'.sent = None THEN new = old
                      ELSE IF Len(old) < TrackCap THEN new = Append(old, last'.sent)
                      ELSE new = Append(Tail(old), last'.sent)
      ]_vars

\* A refused /clean whose denial message pushed the oldest id out of a full
\* list.
C17_Witness ==
    /\ last.handler = "clean_command"
    /\ last.auth = "no"
    /\ last.sent # None
    /\ Len(recorded[last.chat]) = TrackCap + 1
    /\ Len(SENT_MESSAGES[last.chat]) = TrackCap

\* C18: when /clean ends after deletes failed with BadRequest or Forbidden,
\* the chat's list holds none of the drained ids, the ids whose delete
\* failed included, and the report counts the deletes that succeeded; a
\* /clean of the same chat that comes next has none of them in its snapshot.
C18_FailedIdsDropped ==
    /\ []( (cleanTask.pc = "done" /\ cleanTask.deleted < Len(cleanTask.snapshot)) =>
             /\ Range(cleanTask.snapshot) \cap Range(SENT_MESSAGES[cleanTask.chat]) = {}
             /\ last.text = Text("cleaned", cleanTask.deleted, <<>>) )
    /\ [][ ( /\ cleanTask.pc = "done"
             /\ cleanTask'.pc = "deleting"
             /\ cleanTask'.chat = cleanTask.chat ) =>
               Range(cleanTask'.snapshot) \cap Range(cleanTask.snapshot) = {}
         ]_vars

\* A /clean that ended with its report sent after both of its deletes failed,
\* the last one with Forbidden.
C18_Witness ==
    /\ cleanTask.pc = "done"
    /\ cleanTask.outcome = "Forbidden"
    /\ Len(cleanTask.snapshot) = 2
    /\ cleanTask.deleted = 0
    /\ last.text = Text("cleaned", 0, <<>>)
    /\ last.sent # None

\* C19: a delete that fails with an error other than BadRequest or Forbidden
\* ends the handler there: the list is as it was when the command began,
\* the ids already deleted included, nothing is sent, and no further delete
\* of that /clean is attempted.
C19_OtherErrorStops ==
    /\ []( cleanTask.pc = "aborted" =>
             /\ cleanTask.outcome \notin {"ok", "BadRequest", "Forbidden"}
             /\ SENT_MESSAGES[cleanTask.chat] = cleanTask.snapshot )
    /\ [][ ( /\ cleanTask.pc = "deleting"
             /\ cleanTask'.i = cleanTask.i + 1
             /\ cleanTask'.outcome \notin {"ok", "BadRequest", "Forbidden"} ) =>
               /\ cleanTask'.pc = "aborted"
               /\ cleanTask'.deleted = cleanTask.deleted
               /\ SENT_MESSAGES' = SENT_MESSAGES
               /\ botMsgs' = botMsgs
               /\ last'.text = NoText
               /\ last'.sent = None
               /\ last'.raised
         ]_vars
    /\ [][ cleanTask.pc = "aborted" =>
             \/ cleanTask' = cleanTask
             \/ cleanTask' = Idle
             \/ cleanTask'.pc = "deleting" /\ cleanTask'.i = 1
         ]_vars

\* A /clean stopped by a network error after a successful delete, with ids
\* of its snapshot left untried.
C19_Witness ==
    /\ cleanTask.pc = "aborted"
    /\ cleanTask.outcome = "NetworkError"
    /\ cleanTask.deleted >= 1
    /\ cleanTask.i <= Len(cleanTask.snapshot)

\* A /clean of chat c tries the ids of c's list as it was when the command
\* began, oldest first and each once, and leaves the other chats' lists and
\* the silent set as they are.
CleanInOneChat ==
    /\ cleanTask'.pc = "deleting" /\ cleanTask' # cleanTask /\ cleanTask'.i = 1 =>
           /\ cleanTask'.snapshot = SENT_MESSAGES[cleanTask'.chat]
           /\ \A j, k \in 1..Len(cleanTask'.snapshot) :
                  j < k => cleanTask'.snapshot[j] < cleanTask'.snapshot[k]
    /\ cleanTask.pc = "deleting" /\ cleanTask' # cleanTask =>
           /\ cleanTask'.i = cleanTask.i + 1
           /\ cleanTask.i \in 1..Len(cleanTask.snapshot)
           /\ cleanTask'.snapshot = cleanTask.snapshot
           /\ cleanTask'.chat = cleanTask.chat
           /\ \A d \in Chats \ {cleanTask.chat} : SENT_MESSAGES'[d] = SENT_MESSAGES[d]
           /\ SILENT_CHATS' = SILENT_CHATS
    /\ events' # events /\ last'.handler = "clean_command" =>
           /\ \A d \in Chats \ {last'.chat} : SENT_MESSAGES'[d] = SENT_MESSAGES[d]
           /\ SILENT_CHATS' = SILENT_CHATS

\* C20 as claimed: /clean in chat c acts on c alone, and /mode in chat c
\* changes the silent-set membership of c alone and takes no id out of any
\* tracked list.
C20_ModeRemovesNothing ==
    [][ /\ CleanInOneChat
        /\ events' # events /\ last'.handler = "mode_command" =>
               /\ SILENT_CHATS' \ {last'.chat} = SILENT_CHATS \ {last'.chat}
               /\ \A d \in Chats : Dropped(d) = {}
      ]_vars

\* C20, amended: /clean in chat c acts on c alone; /mode in chat c changes
\* the silent-set membership of c alone, leaves the lists of the other chats
\* as they are and takes out of c's list at most its oldest id, when the
\* reply is recorded in a list that already held 50.
C20_ModeInOneChat ==
    [][ /\ CleanInOneChat
        /\ events' # events /\ last'.handler = "mode_command" =>
               /\ SILENT_CHATS' \ {last'.chat} = SILENT_CHATS \ {last'.chat}
               /\ \A d \in Chats \ {last'.chat} : SENT_MESSAGES'[d] = SENT_MESSAGES[d]
               /\ Dropped(last'.chat) \subseteq
                      (IF Len(SENT_MESSAGES[last'.chat]) = TrackCap /\ last'.sent # None
                       THEN Oldest(last'.chat) ELSE {})
      ]_vars

\* An authorized /mode silent answered in a chat whose list was full, with
\* no other chat silenced.
C20_Witness ==
    /\ last.handler = "mode_command"
    /\ last.auth = "yes"
    /\ SILENT_CHATS = {last.chat}
    /\ last.sent # None
    /\ Len(recorded[last.chat]) = TrackCap + 1

====
